---- MODULE Spec2Model ----
(***************************************************************************)
(* Trial engine of the three gamepad reaction trainers                     *)
(*   rt : src/reaction-trainer.py          (lenient, false-start counter)  *)
(*   v1 : src/xbox-gamepad-trainer.py      (strict, face buttons)          *)
(*   v2 : src/xbox-gamepad-trainer-v2.py   (strict, shuffle bag, triggers) *)
(* One behaviour runs one program (prog is fixed by Init).  The main loop  *)
(* is modelled statement group by statement group: pc is the position in   *)
(* the loop body, evs the list pygame.event.get() returned and that the    *)
(* for-loop is still walking through.                                      *)
(* Time is the monotonic clock time.perf_counter(), quantised; every read  *)
(* of it may find it advanced.  Optional[float] is a sequence of length    *)
(* at most one: None is << >>, a value x is <<x>>.                         *)
(***************************************************************************)
EXTENDS Integers, Sequences, FiniteSets, TLC

(* ------------------------------ bounds -------------------------------- *)
MaxClock == 3
\* total number of player inputs in one run: queued events and trigger pulls
MaxEvents == 2
\* quantised DELAY_RANGE_S
DelayMin == 1
DelayMax == 2
\* number of next() calls followed in the shuffle-bag specification
MaxDraws == 10

(* --------------------------- configuration ---------------------------- *)
Programs == {"rt", "v1", "v2"}

\* the face buttons, bumpers and trigger axes of the device that are followed
DEFAULT_XBOX_FACE == (0 :> "A") @@ (1 :> "B")
DEFAULT_XBOX_BUMPERS == (4 :> "LB")
TRIGGER_AXES == <<[axis |-> 4, name |-> "LT"], [axis |-> 5, name |-> "RT"]>>
TriggerNames == {TRIGGER_AXES[i].name : i \in DOMAIN TRIGGER_AXES}
START_BUTTON_INDEX == 7
\* a button index no program maps
OtherButtonIndex == 6

\* axis samples and thresholds in tenths
TRIGGER_THRESHOLD == 6
TRIGGER_RELEASE == 2
AxisValues == {1, 2, 6, 8}

TARGET_BUTTONS == <<"A">>
V1_TARGETS == <<"A", "B">>
ALL_TARGETS == <<"A", "B", "LB", "LT", "RT">>

None == << >>
Some(x) == <<x>>

READY == "ready"
GO == "go"
SUMMARY == "summary"
DELAY == "delay"
PROMPT == "prompt"

Range(s) == {s[i] : i \in DOMAIN s}
DELAY_RANGE_S == DelayMin .. DelayMax

(* ------------------------------ events -------------------------------- *)
Quit == [type |-> "QUIT", key |-> "", button |-> -1]
KeyDown(k) == [type |-> "KEYDOWN", key |-> k, button |-> -1]
JoyButtonDown(i) == [type |-> "JOYBUTTONDOWN", key |-> "", button |-> i]
ButtonIndices == DOMAIN DEFAULT_XBOX_FACE \cup DOMAIN DEFAULT_XBOX_BUMPERS
                   \cup {OtherButtonIndex, START_BUTTON_INDEX}
Events == {Quit, KeyDown("SPACE")}
            \cup {JoyButtonDown(i) : i \in ButtonIndices}

VARIABLES
  prog,            \* which program runs
  pc,              \* position in the loop body
  running,
  clock,           \* time.perf_counter()
  now,             \* the tick's sample of the clock
  queue,           \* pygame's event queue
  evs,             \* events of this tick not yet handled
  sent,            \* player inputs so far (queued events, trigger pulls that fired)
  phase, target, delay_until, prompt_shown_t,
  trials, false_starts,          \* Session (rt)
  attempts,                      \* SessionStats (v1, v2)
  summary_lines, last_feedback, last_feedback_t,
  trigger_armed, bag, axis_i, results_file,
  \* history variables
  summary_calls,   \* calls of summary_lines() / summary_text()
  held,            \* per trigger: it fired, and no sample of it was below the release threshold since
  wrong_presses,   \* wrong presses handled since the prompt became live
  period_len,      \* length of the ledger when the prompt became live
  waiting_presses, \* labelled button presses handled while Waiting
  draws,           \* labels returned by ShuffleBag.next(), in order
  items,           \* ShuffleBag._items: the labels the bag was constructed with
  raised,          \* the exception a call has raised, "" if none
  \* observations, taken by the specifications that follow them
  due,             \* the tick was polled with the phase Waiting and the deadline reached
  fs_seen,         \* false_starts when the tick was polled
  sample           \* the last value js.get_axis() returned, 0 before the first

ctl == <<prog, pc, running, now, evs, axis_i>>
env == <<clock, queue, sent>>
trial == <<phase, target, delay_until, prompt_shown_t>>
ledger == <<trials, false_starts, attempts>>
report == <<summary_lines, results_file, summary_calls>>
feedback == <<last_feedback, last_feedback_t>>
trig == <<trigger_armed, held>>
hist == <<wrong_presses, period_len, waiting_presses>>
cfg == <<items, raised>>
obs == <<due, fs_seen, sample>>
vars == <<ctl, env, trial, ledger, report, feedback, trig, hist, bag, draws, cfg, obs>>


(* --------------------------- pure helpers ----------------------------- *)
Last(s) == s[Len(s)]
ButLast(s) == SubSeq(s, 1, Len(s) - 1)
SelectCorrect(as) == SelectSeq(as, LAMBDA a : a.correct /\ a.reaction_s # None)

\* Session.reaction_times: [t.reaction_s for t in self.trials]
reaction_times(ts) == [i \in DOMAIN ts |-> ts[i].reaction_s]

\* mutation: the latencies of all attempts, correct or not
ReactionsOfAll(as) ==
  LET timed == SelectSeq(as, LAMBDA a : a.reaction_s # None)
  IN [i \in DOMAIN timed |-> timed[i].reaction_s[1]]

\* SessionStats._correct_reactions
correct_reactions(as) ==
  [i \in DOMAIN SelectCorrect(as) |-> SelectCorrect(as)[i].reaction_s[1]]

\* mutation: the factor 100 lost
AccuracyUnscaled(correct, total) ==
  IF total # 0 THEN correct \div total ELSE 0

\* acc = (correct / total * 100.0) if total else 0.0   (whole percent)
Accuracy(correct, total) ==
  IF total # 0 THEN (correct * 100) \div total ELSE 0

(* statistics over a list of latencies; a mean or a median is kept as the  *)
(* exact fraction num / den                                                *)
RECURSIVE Sum(_)
Sum(xs) == IF xs = << >> THEN 0 ELSE Head(xs) + Sum(Tail(xs))

RECURSIVE InsertSorted(_, _)
InsertSorted(s, x) ==
  IF s = << >> THEN <<x>>
  ELSE IF Head(s) <= x THEN <<Head(s)>> \o InsertSorted(Tail(s), x)
  ELSE <<x>> \o s

RECURSIVE Sorted(_)
Sorted(xs) == IF xs = << >> THEN << >> ELSE InsertSorted(Sorted(Tail(xs)), Head(xs))

\* statistics.mean(xs); raises StatisticsError on the empty list
mean(xs) == [num |-> Sum(xs), den |-> Len(xs)]

\* statistics.median(xs); raises StatisticsError on the empty list
median(xs) ==
  LET s == Sorted(xs)
      n == Len(s)
  IN IF n % 2 = 1 THEN [num |-> s[(n + 1) \div 2], den |-> 1]
     ELSE [num |-> s[n \div 2] + s[(n \div 2) + 1], den |-> 2]

\* min(xs), max(xs); raise ValueError on the empty list
Fastest(xs) == Sorted(xs)[1]
Slowest(xs) == Sorted(xs)[Len(xs)]

\* the four "Reaction time" lines
ReactionLines(xs) ==
  [mean |-> mean(xs), median |-> median(xs),
   fastest |-> Fastest(xs), slowest |-> Slowest(xs)]

\* "if n: ... else: (no trials completed)" / "if correct_rts: ... else: ..."
Reaction(xs) == IF xs # << >> THEN Some(ReactionLines(xs)) ELSE None

\* one line of the per-button breakdown: "if xs: n, mean, median" or the
\* line "n=  0  mean=   -     median=   -"
BreakdownLine(b, xs) ==
  [btn |-> b, n |-> Len(xs),
   mean |-> IF xs # << >> THEN Some(mean(xs)) ELSE None,
   median |-> IF xs # << >> THEN Some(median(xs)) ELSE None]

\* Session.per_button_times, the list of one button
per_button_times(ts, b) ==
  LET mine == SelectSeq(ts, LAMBDA t : t.target = b)
  IN [i \in DOMAIN mine |-> mine[i].reaction_s]

\* Session.summary_lines: "if n:" and "if len(TARGET_BUTTONS) > 1:"
BreakdownPrinted(n, btns) == n # 0 /\ Len(btns) > 1

\* Session.summary_lines: the per-button breakdown for the target list btns
SessionBreakdown(ts, btns) ==
  IF BreakdownPrinted(Len(ts), btns)
  THEN [i \in DOMAIN btns |-> BreakdownLine(btns[i], per_button_times(ts, btns[i]))]
  ELSE << >>

\* the lists the statistics functions were called on for a breakdown
BreakdownEvaluated(rows, lists) ==
  {lists[i] : i \in {j \in DOMAIN rows : rows[j].mean # None}}

\* Session.summary_lines: the values the lines are formatted from
SessionSummaryLines(ts, fs) ==
  LET rts == reaction_times(ts)
      per == SessionBreakdown(ts, TARGET_BUTTONS)
  IN [n |-> Len(ts), false_starts |-> fs,
      rts |-> IF Len(ts) # 0 THEN rts ELSE << >>,
      reaction |-> Reaction(rts),
      per_button |-> per,
      evaluated |->
        (IF Reaction(rts) # None THEN {rts} ELSE {})
          \cup BreakdownEvaluated(per, [i \in DOMAIN per |->
                                          per_button_times(ts, TARGET_BUTTONS[i])])]

\* v1: for btn in ["A", "B", "X", "Y"];  v2: for btn in ALL_TARGETS
BreakdownLabels == IF prog = "v2" THEN ALL_TARGETS ELSE V1_TARGETS

\* "[a.reaction_s for a in self.attempts if a.correct and a.target == btn
\*   and a.reaction_s is not None]"
ButtonReactions(as, b) ==
  LET mine == SelectSeq(as, LAMBDA a : a.correct /\ a.target = b /\ a.reaction_s # None)
  IN [i \in DOMAIN mine |-> mine[i].reaction_s[1]]

\* mutation: labels without a correct attempt are left out
BreakdownWithData(as, btns) ==
  LET some == SelectSeq(btns, LAMBDA b : ButtonReactions(as, b) # << >>)
  IN [i \in DOMAIN some |-> BreakdownLine(some[i], ButtonReactions(as, some[i]))]

\* SessionStats.summary_text: "Per-button breakdown (correct only)"
StatsBreakdown(as, btns) ==
  [i \in DOMAIN btns |-> BreakdownLine(btns[i], ButtonReactions(as, btns[i]))]

(* the confusion table: conf is the dict of (target, pressed) counts, kept *)
(* as the list of its items in insertion order                             *)
Mistakes(as) == SelectSeq(as, LAMBDA a : ~a.correct)

Count(as, t, p) ==
  Cardinality({i \in DOMAIN as : as[i].target = t /\ as[i].pressed = p})

RECURSIVE ConfItems(_, _)
ConfItems(ms, all) ==
  IF ms = << >> THEN << >>
  ELSE LET rest == ConfItems(ButLast(ms), all)
           a == Last(ms)
       IN IF \E i \in DOMAIN rest :
               rest[i].target = a.target /\ rest[i].pressed = a.pressed
          THEN rest
          ELSE Append(rest, [target |-> a.target, pressed |-> a.pressed,
                             n |-> Count(all, a.target, a.pressed)])

\* "conf[(a.target, a.pressed)] = conf.get(..., 0) + 1" over the incorrect
\* attempts (pressed is never None)
Conf(as) == ConfItems(Mistakes(as), Mistakes(as))

\* mutation: the items sorted by ascending count
RECURSIVE InsertAscending(_, _)
InsertAscending(s, x) ==
  IF s = << >> THEN <<x>>
  ELSE IF Head(s).n <= x.n THEN <<Head(s)>> \o InsertAscending(Tail(s), x)
  ELSE <<x>> \o s

\* mutation: an item goes before the items of its count (not a stable sort)
RECURSIVE InsertBeforeTies(_, _)
InsertBeforeTies(s, x) ==
  IF s = << >> THEN <<x>>
  ELSE IF Head(s).n > x.n THEN <<Head(s)>> \o InsertBeforeTies(Tail(s), x)
  ELSE <<x>> \o s

\* sorted(conf.items(), key=lambda kv: kv[1], reverse=True): a stable sort,
\* items of equal count keep their order
RECURSIVE InsertByCount(_, _)
InsertByCount(s, x) ==
  IF s = << >> THEN <<x>>
  ELSE IF Head(s).n >= x.n THEN <<Head(s)>> \o InsertByCount(Tail(s), x)
  ELSE <<x>> \o s

RECURSIVE SortedByCount(_)
SortedByCount(c) ==
  IF c = << >> THEN << >>
  ELSE InsertByCount(SortedByCount(ButLast(c)), Last(c))

\* the slice "[:8]"
MISTAKES_SHOWN == 8

\* "sorted(...)[:8]"
TopMistakes(c) ==
  SubSeq(c, 1, IF Len(c) < MISTAKES_SHOWN THEN Len(c) ELSE MISTAKES_SHOWN)

\* SessionStats.summary_text: the values the lines are formatted from
summary_text(as) ==
  LET total == Len(as)
      correct == Len(SelectSeq(as, LAMBDA a : a.correct))
      correct_rts == correct_reactions(as)
      per == StatsBreakdown(as, BreakdownLabels)
  IN [total |-> total, correct |-> correct, incorrect |-> total - correct,
      acc |-> Accuracy(correct, total), correct_rts |-> correct_rts,
      reaction |-> Reaction(correct_rts),
      per_button |-> per,
      mistakes |-> TopMistakes(SortedByCount(Conf(as))),
      evaluated |->
        (IF Reaction(correct_rts) # None THEN {correct_rts} ELSE {})
          \cup BreakdownEvaluated(per, [i \in DOMAIN per |->
                                          ButtonReactions(as, BreakdownLabels[i])])]

(* ---------------------------- ShuffleBag ------------------------------ *)
\* The bag is followed as the set of labels still in it: random.shuffle
\* gives them any order, so the label pop() returns is any label of the bag,
\* and the order of the rest is drawn when they are popped in their turn.

\* ShuffleBag._refill: self._bag = list(self._items); random.shuffle(...)
Refill(labels) == Range(labels)

\* mutation: the bag is refilled one label early
RefillEarly(b) == Cardinality(b) <= 1

\* ShuffleBag.next: "if not self._bag: self._refill()"
NeedsRefill(b) == b = {}

\* ShuffleBag.next: the bag the pop works on
BagBeforePop(b) == IF NeedsRefill(b) THEN Refill(items) ELSE b

\* ShuffleBag.next: "return self._bag.pop()", the results it can have
Pops(b) == {[label |-> x, bag |-> b \ {x}] : x \in b}

\* mutation: the delay alone, not added to the time of scheduling
DeadlineFromZero(t, d) == d

\* "time.perf_counter() + rand_delay_s()" / "now + random.uniform(*DELAY_RANGE_S)"
Deadline(t, d) == t + d

(* ------------------------------- Init --------------------------------- *)
InitCommon ==
  /\ running = TRUE
  /\ clock = 1 /\ now = 1
  /\ queue = << >> /\ evs = << >> /\ sent = 0
  /\ delay_until \in {Deadline(clock, d) : d \in DELAY_RANGE_S}
  /\ prompt_shown_t = None
  /\ trials = << >> /\ false_starts = 0 /\ attempts = << >>
  /\ summary_lines = << >> /\ results_file = 0 /\ summary_calls = 0
  /\ last_feedback = <<"Start">> /\ last_feedback_t = clock
  /\ trigger_armed = [n \in TriggerNames |-> TRUE]
  /\ held = [n \in TriggerNames |-> FALSE]
  /\ axis_i = 1
  /\ wrong_presses = 0 /\ period_len = 0 /\ waiting_presses = 0
  /\ raised = ""
  /\ due = FALSE /\ fs_seen = 0 /\ sample = 0

InitRT ==
  /\ prog = "rt" /\ phase = READY
  /\ target \in Range(TARGET_BUTTONS)
  /\ bag = {} /\ draws = << >> /\ items = << >>

InitV1 ==
  /\ prog = "v1" /\ phase = DELAY
  /\ target \in Range(V1_TARGETS)
  /\ bag = {} /\ draws = << >> /\ items = << >>

InitV2 ==
  /\ prog = "v2" /\ phase = DELAY
  /\ items = ALL_TARGETS
  /\ \E p \in Pops(Refill(ALL_TARGETS)) : target = p.label /\ bag = p.bag /\ draws = <<p.label>>

Init == pc = "top" /\ InitCommon /\ (InitRT \/ InitV1 \/ InitV2)


(* --------------------------- classification --------------------------- *)
\* mutation: no face press counts as wrong
NeverWrong(face, tgt) == FALSE

\* rt: "if pressed_face != state.target"
WrongFace(face, tgt) == face # tgt

\* mutation: every press counts as correct
AlwaysCorrect(label, tgt) == TRUE

\* v1, v2: "correct = (label == target_btn)"
Correct(label, tgt) == label = tgt

\* mutation: the operands of the subtraction swapped
LatencySwapped(t, shown) == shown - t

\* "rt = now - prompt_shown_t"
Latency(t, shown) == t - shown

\* mutation: the guard against a second stop dropped
StopAlways(ph) == TRUE

\* guard of the stop requests: "... and phase != 'summary'"
StopAllowed(ph) == ph # SUMMARY

\* v2: "if event.type == pygame.JOYBUTTONDOWN and phase == 'prompt'"
V2ButtonsHandled(ph) == ph = PROMPT

\* mutation: buttons handled in every phase
ButtonsAlwaysHandled(ph) == TRUE

\* v1: "if phase == 'prompt'"
V1ButtonsHandled(ph) == ph = PROMPT

\* mutation: the increment lost
FalseStartNotCounted(fs) == fs

\* mutation: a false start counted twice
FalseStartTwice(fs) == fs + 2

\* Session.record_false_start
record_false_start(fs) == fs + 1

Trial(tgt, r) == [target |-> tgt, reaction_s |-> r]
Attempt(tgt, pressed, r, c) ==
  [target |-> tgt, pressed |-> pressed, reaction_s |-> r, correct |-> c]

\* btn_index_to_face / btn_index_to_label
ButtonMap ==
  IF prog = "v2" THEN DEFAULT_XBOX_FACE @@ DEFAULT_XBOX_BUMPERS
  ELSE DEFAULT_XBOX_FACE

\* js.get_numaxes(): the device exposes both trigger axes
NumAxes == TRIGGER_AXES[Len(TRIGGER_AXES)].axis + 1

Strict == prog \in {"v1", "v2"}

\* the report the summary functions give for the ledger as it is
ReportNow ==
  IF prog = "rt" THEN SessionSummaryLines(trials, false_starts)
  ELSE summary_text(attempts)

\* the running figures drawn every frame of the delay and prompt phases:
\* total, correct_n, acc
Hud ==
  LET total == Len(attempts)
      correct_n == Len(SelectSeq(attempts, LAMBDA a : a.correct))
  IN [total |-> total, correct_n |-> correct_n, acc |-> Accuracy(correct_n, total)]

Waiting == phase \in {READY, DELAY}
PromptLive == phase \in {GO, PROMPT}
Ledger == IF prog = "rt" THEN trials ELSE attempts

\* the values a read of time.perf_counter() can return
Reads == clock .. MaxClock

(* ---------------------------- environment ----------------------------- *)
\* the device or the keyboard queues an event: between two polls, or after
\* the poll of a tick and before its phase progression
Deliver(e) ==
  /\ pc \in {"top", "progress"} /\ running
  /\ sent < MaxEvents
  /\ queue' = Append(queue, e) /\ sent' = sent + 1
  /\ UNCHANGED <<ctl, clock, trial, ledger, report, feedback, trig, hist, bag, draws, cfg, obs>>

(* ------------------------------ the loop ------------------------------ *)
\* "now = time.perf_counter()" and "pygame.event.get()"
Poll ==
  /\ pc = "top" /\ running
  /\ \E t \in Reads : clock' = t /\ now' = t
  /\ evs' = queue /\ queue' = << >>
  /\ pc' = "events"
  /\ UNCHANGED <<prog, running, axis_i, sent, trial, ledger, report,
                 feedback, trig, hist, bag, draws, cfg>>

LoopTop == Poll /\ UNCHANGED obs

\* the for-loop over the events is exhausted
EndEvents ==
  /\ pc = "events" /\ evs = << >>
  /\ pc' = IF prog = "v2" /\ phase = PROMPT THEN "axes" ELSE "progress"
  /\ axis_i' = 1
  /\ UNCHANGED <<prog, running, now, evs, env, trial, ledger, report, feedback,
                 trig, hist, bag, draws, cfg, obs>>

Handling == pc = "events" /\ evs # << >>
E == Head(evs)
IsQuit == E.type = "QUIT" \/ (E.type = "KEYDOWN" /\ E.key = "ESCAPE")
IsSpace == E.type = "KEYDOWN" /\ E.key = "SPACE"
IsButton == E.type = "JOYBUTTONDOWN"
IsStart == IsButton /\ E.button = START_BUTTON_INDEX
Mapped == IsButton /\ E.button \in DOMAIN ButtonMap

(* -------------------------- reaction-trainer --------------------------- *)
\* QUIT / ESCAPE: running = False; break
RT_Quit ==
  /\ prog = "rt" /\ Handling /\ IsQuit
  /\ running' = FALSE /\ evs' = << >>
  /\ UNCHANGED <<prog, pc, now, axis_i, env, trial, ledger, report, feedback,
                 trig, hist, bag, draws, cfg, obs>>

\* SPACE or START while not in the summary
RT_Stop ==
  /\ prog = "rt" /\ Handling /\ (IsSpace \/ IsStart) /\ StopAllowed(phase)
  /\ phase' = SUMMARY
  /\ summary_lines' = SessionSummaryLines(trials, false_starts)
  /\ summary_calls' = summary_calls + 1
  /\ evs' = Tail(evs)
  /\ UNCHANGED <<prog, pc, running, now, axis_i, env, target, delay_until,
                 prompt_shown_t, ledger, results_file, feedback, trig, hist,
                 bag, draws, cfg, obs>>

\* SPACE in the summary; a face button in the summary
RT_NoOp ==
  /\ prog = "rt" /\ Handling
  /\ \/ IsSpace /\ ~StopAllowed(phase)
     \/ Mapped /\ phase = SUMMARY
  /\ evs' = Tail(evs)
  /\ UNCHANGED <<prog, pc, running, now, axis_i, env, trial, ledger, report,
                 feedback, trig, hist, bag, draws, cfg, obs>>

\* a button without a face label (START in the summary included)
RT_Ignored ==
  /\ prog = "rt" /\ Handling /\ IsButton
  /\ ~(IsStart /\ StopAllowed(phase)) /\ ~Mapped
  /\ last_feedback' = <<"Ignored", E.button>>
  /\ \E t \in Reads : clock' = t /\ last_feedback_t' = t
  /\ evs' = Tail(evs)
  /\ UNCHANGED <<prog, pc, running, now, axis_i, queue, sent, trial,
                 ledger, report, trig, hist, bag, draws, cfg, obs>>

\* READY: record_false_start(); schedule_ready(); set_feedback(...)
RT_FalseStart ==
  /\ prog = "rt" /\ Handling /\ Mapped /\ phase = READY
  /\ false_starts' = record_false_start(false_starts)
  /\ \E t1 \in Reads : \E t2 \in t1 .. MaxClock : \E d \in DELAY_RANGE_S :
       /\ phase' = READY /\ prompt_shown_t' = None /\ delay_until' = Deadline(t1, d)
       /\ last_feedback' = <<"False start", ButtonMap[E.button]>>
       /\ last_feedback_t' = t2 /\ clock' = t2
  /\ evs' = Tail(evs)
  /\ waiting_presses' = waiting_presses + 1
  /\ UNCHANGED <<prog, pc, running, now, axis_i, queue, sent, target,
                 trials, attempts, report, trig, wrong_presses, period_len,
                 bag, draws, cfg, obs>>

\* GO, wrong face: feedback only
RT_Wrong ==
  /\ prog = "rt" /\ Handling /\ Mapped /\ phase = GO
  /\ WrongFace(ButtonMap[E.button], target)
  /\ last_feedback' = <<"Wrong", ButtonMap[E.button], target>>
  /\ \E t \in Reads : clock' = t /\ last_feedback_t' = t
  /\ wrong_presses' = wrong_presses + 1
  /\ evs' = Tail(evs)
  /\ UNCHANGED <<prog, pc, running, now, axis_i, queue, sent, trial,
                 ledger, report, trig, period_len, waiting_presses, bag, draws, cfg, obs>>

\* GO, the target's face: the trial is recorded (or, without a timestamp,
\* only rescheduled), a new target is drawn
RT_Correct ==
  /\ prog = "rt" /\ Handling /\ Mapped /\ phase = GO
  /\ ~WrongFace(ButtonMap[E.button], target)
  /\ \E t1 \in Reads : \E t2 \in t1 .. MaxClock : \E d \in DELAY_RANGE_S :
       /\ clock' = t2
       /\ IF prompt_shown_t = None
          THEN /\ last_feedback' = <<"Timing unavailable">>
               /\ last_feedback_t' = t1
               /\ delay_until' = Deadline(t2, d)
               /\ trials' = trials
          ELSE /\ trials' = Append(trials, Trial(target, Latency(now, prompt_shown_t[1])))
               /\ last_feedback' = <<"Correct", ButtonMap[E.button],
                                     Latency(now, prompt_shown_t[1])>>
               /\ last_feedback_t' = t1
               /\ delay_until' = Deadline(t2, d)
  /\ phase' = READY /\ prompt_shown_t' = None
  /\ target' \in Range(TARGET_BUTTONS)
  /\ evs' = Tail(evs)
  /\ UNCHANGED <<prog, pc, running, now, axis_i, queue, sent,
                 false_starts, attempts, report, trig, hist, bag, draws, cfg, obs>>


(* ------------------------- xbox-gamepad-trainer ------------------------ *)
\* QUIT / ESCAPE: running = False; break
V1_Quit ==
  /\ prog = "v1" /\ Handling /\ IsQuit
  /\ running' = FALSE /\ evs' = << >>
  /\ UNCHANGED <<prog, pc, now, axis_i, env, trial, ledger, report, feedback,
                 trig, hist, bag, draws, cfg, obs>>

\* SPACE or START while not in the summary
V1_Stop ==
  /\ prog = "v1" /\ Handling /\ (IsSpace \/ IsStart) /\ StopAllowed(phase)
  /\ phase' = SUMMARY
  /\ summary_lines' = summary_text(attempts)
  /\ summary_calls' = summary_calls + 1
  /\ evs' = Tail(evs)
  /\ UNCHANGED <<prog, pc, running, now, axis_i, env, target, delay_until,
                 prompt_shown_t, ledger, results_file, feedback, trig, hist,
                 bag, draws, cfg, obs>>

\* SPACE in the summary; any button outside the prompt phase
V1_NoOp ==
  /\ prog = "v1" /\ Handling
  /\ \/ IsSpace /\ ~StopAllowed(phase)
     \/ IsButton /\ ~(IsStart /\ StopAllowed(phase)) /\ ~V1ButtonsHandled(phase)
  /\ waiting_presses' = IF Mapped /\ Waiting THEN waiting_presses + 1
                        ELSE waiting_presses
  /\ evs' = Tail(evs)
  /\ UNCHANGED <<prog, pc, running, now, axis_i, env, trial, ledger, report,
                 feedback, trig, wrong_presses, period_len, bag, draws, cfg, obs>>

\* prompt phase, a button without a face label
V1_Ignored ==
  /\ prog = "v1" /\ Handling /\ IsButton
  /\ ~(IsStart /\ StopAllowed(phase)) /\ V1ButtonsHandled(phase) /\ ~Mapped
  /\ last_feedback' = <<"Ignored", E.button>>
  /\ last_feedback_t' = now
  /\ evs' = Tail(evs)
  /\ UNCHANGED <<prog, pc, running, now, axis_i, env, trial, ledger, report,
                 trig, hist, bag, draws, cfg, obs>>

\* prompt phase, a face button: the attempt is recorded; only a correct
\* press starts the next delay
V1_Press ==
  /\ prog = "v1" /\ Handling /\ Mapped
  /\ ~(IsStart /\ StopAllowed(phase)) /\ V1ButtonsHandled(phase)
  /\ LET face == ButtonMap[E.button]
         rt == IF prompt_shown_t # None
               THEN Some(Latency(now, prompt_shown_t[1])) ELSE None
         correct == Correct(face, target)
     IN /\ attempts' = Append(attempts, Attempt(target, face, rt, correct))
        /\ last_feedback' =
             IF rt # None
             THEN <<IF correct THEN "Correct" ELSE "Wrong", face, rt[1]>>
             ELSE <<"Input received.">>
        /\ last_feedback_t' = now
        /\ wrong_presses' = IF correct THEN wrong_presses ELSE wrong_presses + 1
        /\ IF correct
           THEN /\ phase' = DELAY
                /\ \E d \in DELAY_RANGE_S : delay_until' = Deadline(now, d)
                /\ target' \in Range(V1_TARGETS)
                /\ prompt_shown_t' = None
           ELSE UNCHANGED <<phase, delay_until, target, prompt_shown_t>>
  /\ evs' = Tail(evs)
  /\ UNCHANGED <<prog, pc, running, now, axis_i, env, trials, false_starts,
                 report, trig, period_len, waiting_presses, bag, draws, cfg, obs>>

(* ----------------------- xbox-gamepad-trainer-v2 ----------------------- *)
\* start_summary(): the report is computed and appended to the results file
start_summary ==
  /\ phase' = SUMMARY
  /\ summary_lines' = summary_text(attempts)
  /\ summary_calls' = summary_calls + 1
  /\ results_file' = results_file + 1

\* record_press(label, now)
record_press(label) ==
  LET rt == IF prompt_shown_t # None /\ prompt_shown_t[1] # 0
            THEN Some(Latency(now, prompt_shown_t[1])) ELSE None
      correct == Correct(label, target)
  IN /\ attempts' = Append(attempts, Attempt(target, label, rt, correct))
     /\ last_feedback' =
          IF rt # None
          THEN <<IF correct THEN "Correct" ELSE "Wrong", label, rt[1]>>
          ELSE <<"Input received.">>
     /\ last_feedback_t' = now
     /\ wrong_presses' = IF correct THEN wrong_presses ELSE wrong_presses + 1
     /\ IF correct
        THEN /\ phase' = DELAY
             /\ \E d \in DELAY_RANGE_S : delay_until' = Deadline(now, d)
             /\ \E p \in Pops(BagBeforePop(bag)) :
                  /\ target' = p.label
                  /\ bag' = p.bag
                  /\ draws' = Append(draws, p.label)
             /\ prompt_shown_t' = None
        ELSE UNCHANGED <<phase, delay_until, target, prompt_shown_t, bag, draws>>

\* QUIT / ESCAPE: running = False (the for-loop goes on)
V2_Quit ==
  /\ prog = "v2" /\ Handling /\ IsQuit
  /\ running' = FALSE /\ evs' = Tail(evs)
  /\ UNCHANGED <<prog, pc, now, axis_i, env, trial, ledger, report, feedback,
                 trig, hist, bag, draws, cfg, obs>>

\* SPACE while not in the summary
V2_Space ==
  /\ prog = "v2" /\ Handling /\ IsSpace /\ StopAllowed(phase)
  /\ start_summary
  /\ evs' = Tail(evs)
  /\ UNCHANGED <<prog, pc, running, now, axis_i, env, target, delay_until,
                 prompt_shown_t, ledger, feedback, trig, hist, bag, draws, cfg, obs>>

\* START (button 7) in the prompt phase
V2_Start ==
  /\ prog = "v2" /\ Handling /\ IsStart /\ V2ButtonsHandled(phase)
  /\ start_summary
  /\ evs' = Tail(evs)
  /\ UNCHANGED <<prog, pc, running, now, axis_i, env, target, delay_until,
                 prompt_shown_t, ledger, feedback, trig, hist, bag, draws, cfg, obs>>

\* SPACE in the summary; a button outside the prompt phase; a button
\* without a label in the prompt phase
V2_NoOp ==
  /\ prog = "v2" /\ Handling
  /\ \/ IsSpace /\ ~StopAllowed(phase)
     \/ IsButton /\ ~V2ButtonsHandled(phase)
     \/ IsButton /\ V2ButtonsHandled(phase) /\ ~IsStart /\ ~Mapped
  /\ waiting_presses' = IF Mapped /\ Waiting THEN waiting_presses + 1
                        ELSE waiting_presses
  /\ evs' = Tail(evs)
  /\ UNCHANGED <<prog, pc, running, now, axis_i, env, trial, ledger, report,
                 feedback, trig, wrong_presses, period_len, bag, draws, cfg, obs>>

\* a labelled button in the prompt phase
V2_Press ==
  /\ prog = "v2" /\ Handling /\ Mapped /\ V2ButtonsHandled(phase)
  /\ record_press(ButtonMap[E.button])
  /\ evs' = Tail(evs)
  /\ UNCHANGED <<prog, pc, running, now, axis_i, env, trials, false_starts,
                 report, trig, period_len, waiting_presses, cfg, obs>>

\* js.get_axis(axis_idx): the position of the trigger at this instant
AxisSamples == AxisValues

\* "if v > TRIGGER_THRESHOLD and trigger_armed[name]"
Fires(v, armed) == v > TRIGGER_THRESHOLD /\ armed

\* mutation: a sample on the release threshold re-arms
RearmsAtRelease(v) == v <= TRIGGER_RELEASE

\* "if v < TRIGGER_RELEASE: trigger_armed[name] = True"
Rearms(v) == v < TRIGGER_RELEASE

\* one pass of "for axis_idx, name in TRIGGER_AXES.items()"; the loop is
\* entered when the phase is 'prompt' and is not left when a press ends it
Sample(v) ==
  /\ pc = "axes"
  /\ LET name == TRIGGER_AXES[axis_i].name
     IN IF TRIGGER_AXES[axis_i].axis >= NumAxes
        THEN UNCHANGED <<sent, trial, ledger, feedback, trig, hist, bag, draws>>
        ELSE   /\ IF Fires(v, trigger_armed[name])
                  THEN /\ sent < MaxEvents /\ sent' = sent + 1
                       /\ record_press(name)
                       /\ UNCHANGED <<trials, false_starts, period_len, waiting_presses>>
                  ELSE UNCHANGED <<sent, trial, ledger, feedback, hist, bag, draws>>
               /\ trigger_armed' =
                    [trigger_armed EXCEPT
                       ![name] = IF Rearms(v) THEN TRUE
                                 ELSE IF Fires(v, trigger_armed[name]) THEN FALSE
                                 ELSE @]
               /\ held' =
                    [held EXCEPT
                       ![name] = IF Fires(v, trigger_armed[name]) THEN TRUE
                                 ELSE IF v < TRIGGER_RELEASE THEN FALSE
                                 ELSE @]
  /\ IF axis_i < Len(TRIGGER_AXES)
     THEN axis_i' = axis_i + 1 /\ pc' = pc
     ELSE axis_i' = 1 /\ pc' = "progress"
  /\ UNCHANGED <<prog, running, now, evs, clock, queue, report, cfg>>

SampleAxis == \E v \in AxisSamples : Sample(v) /\ UNCHANGED obs

(* -------------------------- phase progression -------------------------- *)
\* mutation: the timestamp is not taken
show_go_unset(t) == None

\* AppState.show_go: "self.go_shown_t = time.perf_counter()";
\* v1, v2: "prompt_shown_t = time.perf_counter()"
show_go(t) == Some(t)

\* mutation: the deadline has to be passed, not only reached
ElapsedStrictly(t, until) == t > until

\* "now >= state.delay_until" / "now >= delay_until"
Elapsed(t, until) == t >= until

\* "if phase == 'delay' and now >= delay_until": the prompt becomes live
ShowPrompt ==
  /\ pc = "progress" /\ Waiting /\ Elapsed(now, delay_until)
  /\ phase' = IF prog = "rt" THEN GO ELSE PROMPT
  /\ \E t \in Reads : clock' = t /\ prompt_shown_t' = show_go(t)
  /\ trigger_armed' = IF prog = "v2" THEN [n \in TriggerNames |-> TRUE]
                      ELSE trigger_armed
  /\ wrong_presses' = 0 /\ period_len' = Len(Ledger)
  /\ pc' = IF running THEN "top" ELSE "quit"
  /\ UNCHANGED <<prog, running, now, evs, axis_i, queue, sent, target,
                 delay_until, ledger, report, feedback, held, waiting_presses,
                 bag, draws, cfg, obs>>

\* no progression in this tick; draw, flip, clock.tick(FPS)
EndTick ==
  /\ pc = "progress" /\ ~(Waiting /\ Elapsed(now, delay_until))
  /\ pc' = IF running THEN "top" ELSE "quit"
  /\ UNCHANGED <<prog, running, now, evs, axis_i, env, trial, ledger, report,
                 feedback, trig, hist, bag, draws, cfg, obs>>

\* the body of "for event in pygame.event.get()": one event handled
HandleEvent ==
  \/ RT_Quit \/ RT_Stop \/ RT_NoOp \/ RT_Ignored
  \/ RT_FalseStart \/ RT_Wrong \/ RT_Correct
  \/ V1_Quit \/ V1_Stop \/ V1_NoOp \/ V1_Ignored \/ V1_Press
  \/ V2_Quit \/ V2_Space \/ V2_Start \/ V2_NoOp \/ V2_Press

Next ==
  \/ \E e \in Events : Deliver(e)
  \/ LoopTop
  \/ EndEvents
  \/ HandleEvent
  \/ SampleAxis
  \/ ShowPrompt
  \/ EndTick

Spec == Init /\ [][Next]_vars

(* ------------- the loop, with the state of each poll observed ----------- *)
\* the poll of a tick, and what the tick starts from
LoopTopSeen ==
  /\ Poll
  /\ due' = (Waiting /\ now' >= delay_until)
  /\ fs_seen' = false_starts
  /\ UNCHANGED sample

NextTick ==
  \/ \E e \in Events : Deliver(e)
  \/ LoopTopSeen
  \/ EndEvents
  \/ HandleEvent
  \/ SampleAxis
  \/ ShowPrompt
  \/ EndTick

SpecTick == Init /\ [][NextTick]_vars

(* ------------------- the shuffle bag on its own ------------------------ *)
\* bag = ShuffleBag(ALL_TARGETS); target_btn = bag.next()
InitBag == pc = "bag" /\ InitCommon /\ InitV2

\* one more call of bag.next()
BagDraw ==
  /\ pc = "bag" /\ Len(draws) < MaxDraws
  /\ \E p \in Pops(BagBeforePop(bag)) :
       /\ target' = p.label
       /\ bag' = p.bag
       /\ draws' = Append(draws, p.label)
  /\ UNCHANGED <<ctl, env, phase, delay_until, prompt_shown_t, ledger, report,
                 feedback, trig, hist, cfg, obs>>

SpecBag == InitBag /\ [][BagDraw]_vars

(* ------------- the shuffle bag over any list of labels ----------------- *)
\* the lists a ShuffleBag is constructed with
TargetSets == {<< >>, <<"A">>, <<"A", "B">>, <<"A", "B", "LB">>}

\* before "ShuffleBag(items)" is called
InitNew ==
  /\ pc = "new" /\ InitCommon
  /\ prog = "v2" /\ phase = DELAY /\ target = ""
  /\ items \in TargetSets
  /\ bag = {} /\ draws = << >>

\* ShuffleBag.__init__: self._items = list(items); self._bag = [];
\* self._refill().  No statement of it raises, whatever the list.
ShuffleBagInit ==
  /\ pc = "new"
  /\ bag' = Refill(items)
  /\ pc' = "made"
  /\ UNCHANGED <<prog, running, now, evs, axis_i, env, trial, ledger, report,
                 feedback, trig, hist, draws, cfg, obs>>

\* ShuffleBag.next: list.pop() raises IndexError on the empty list
ShuffleBagNext ==
  /\ pc = "made" /\ raised = "" /\ Len(draws) < MaxDraws
  /\ IF BagBeforePop(bag) = {}
     THEN /\ raised' = "IndexError" /\ bag' = BagBeforePop(bag)
          /\ UNCHANGED <<target, draws, items>>
     ELSE /\ \E p \in Pops(BagBeforePop(bag)) :
               /\ target' = p.label
               /\ bag' = p.bag
               /\ draws' = Append(draws, p.label)
          /\ UNCHANGED cfg
  /\ UNCHANGED <<ctl, env, phase, delay_until, prompt_shown_t, ledger, report,
                 feedback, trig, hist, obs>>

SpecNew == InitNew /\ [][ShuffleBagInit \/ ShuffleBagNext]_vars


(* ----------------- the summary functions on any ledger ----------------- *)
\* longest ledger the summary functions are applied to
MaxLedger == 3

\* latencies and labels the entries of those ledgers are made of
Latencies == {0, 2}
LedgerLabels == IF prog = "v2" THEN {"A", "LT"} ELSE Range(V1_TARGETS)

\* a session about to be filled
InitLedger ==
  /\ pc = "ledger" /\ InitCommon /\ delay_until = Deadline(clock, DelayMin)
  /\ prog \in Programs
  /\ phase = IF prog = "rt" THEN READY ELSE DELAY
  /\ target = "A"
  /\ bag = {} /\ draws = << >> /\ items = << >>

\* Session.add_trial(Trial(...))
AddTrial ==
  /\ pc = "ledger" /\ prog = "rt" /\ phase # SUMMARY /\ Len(trials) < MaxLedger
  /\ \E t \in Range(TARGET_BUTTONS) : \E r \in Latencies :
       trials' = Append(trials, Trial(t, r))
  /\ UNCHANGED <<ctl, env, trial, false_starts, attempts, report, feedback,
                 trig, hist, bag, draws, cfg, obs>>

\* Session.record_false_start()
AddFalseStart ==
  /\ pc = "ledger" /\ prog = "rt" /\ phase # SUMMARY /\ false_starts < MaxLedger
  /\ false_starts' = record_false_start(false_starts)
  /\ UNCHANGED <<ctl, env, trial, trials, attempts, report, feedback,
                 trig, hist, bag, draws, cfg, obs>>

\* SessionStats.add(Attempt(target_btn, label, rt, label == target_btn))
AddAttempt ==
  /\ pc = "ledger" /\ Strict /\ phase # SUMMARY /\ Len(attempts) < MaxLedger
  /\ \E t \in LedgerLabels : \E p \in LedgerLabels :
     \E r \in {None} \cup {Some(l) : l \in Latencies} :
       attempts' = Append(attempts, Attempt(t, p, r, Correct(p, t)))
  /\ UNCHANGED <<ctl, env, trial, trials, false_starts, report, feedback,
                 trig, hist, bag, draws, cfg, obs>>

\* "summary_lines = session.summary_lines()" / "stats.summary_text()"
Summarise ==
  /\ pc \in {"ledger", "mistakes"} /\ StopAllowed(phase)
  /\ phase' = SUMMARY
  /\ summary_lines' = ReportNow
  /\ summary_calls' = summary_calls + 1
  /\ UNCHANGED <<ctl, env, target, delay_until, prompt_shown_t, ledger,
                 results_file, feedback, trig, hist, bag, draws, cfg, obs>>

SpecLedger ==
  InitLedger /\ [][AddTrial \/ AddFalseStart \/ AddAttempt \/ Summarise]_vars

(* --------------- the confusion table on long ledgers -------------------- *)
\* longest ledger the confusion table is computed from
MaxMistakes == 10

\* the attempts those ledgers are made of: nine wrong (target, pressed)
\* pairs and a correct press
MistakeKinds ==
  <<Attempt("A", "B", Some(1), FALSE), Attempt("A", "LB", Some(1), FALSE),
    Attempt("A", "LT", Some(1), FALSE), Attempt("A", "RT", Some(1), FALSE),
    Attempt("B", "A", Some(1), FALSE), Attempt("B", "LB", Some(1), FALSE),
    Attempt("B", "LT", Some(1), FALSE), Attempt("B", "RT", Some(1), FALSE),
    Attempt("LB", "A", Some(1), FALSE), Attempt("A", "A", Some(1), TRUE)>>

KindOf(a) == CHOOSE i \in DOMAIN MistakeKinds : MistakeKinds[i] = a

InitMistakes ==
  /\ pc = "mistakes" /\ InitCommon /\ delay_until = Deadline(clock, DelayMin)
  /\ prog = "v2" /\ phase = PROMPT /\ target = "A"
  /\ bag = {} /\ draws = << >> /\ items = ALL_TARGETS

\* SessionStats.add(...); ledgers that differ only in the order of their
\* attempts are followed once, in the order of MistakeKinds
AddMistake ==
  /\ pc = "mistakes" /\ phase # SUMMARY /\ Len(attempts) < MaxMistakes
  /\ \E k \in DOMAIN MistakeKinds :
       /\ attempts # << >> => KindOf(Last(attempts)) <= k
       /\ attempts' = Append(attempts, MistakeKinds[k])
  /\ UNCHANGED <<ctl, env, trial, trials, false_starts, report, feedback,
                 trig, hist, bag, draws, cfg, obs>>

SpecMistakes == InitMistakes /\ [][AddMistake \/ Summarise]_vars

(* ----------- incorrect attempts in either order of the pairs ------------ *)
\* SessionStats.add(...) of an incorrect attempt; the pairs are first made
\* in the order of MistakeKinds or in the opposite order
AddTie ==
  /\ pc = "mistakes" /\ phase # SUMMARY /\ Len(attempts) < MaxMistakes
  /\ \E k \in DOMAIN MistakeKinds :
       /\ ~MistakeKinds[k].correct
       /\ \/ attempts = << >>
          \/ /\ attempts # << >>
             /\ KindOf(attempts[1]) <= KindOf(Last(attempts))
             /\ KindOf(Last(attempts)) <= k
          \/ /\ attempts # << >>
             /\ KindOf(attempts[1]) >= KindOf(Last(attempts))
             /\ KindOf(Last(attempts)) >= k
       /\ attempts' = Append(attempts, MistakeKinds[k])
  /\ UNCHANGED <<ctl, env, trial, trials, false_starts, report, feedback,
                 trig, hist, bag, draws, cfg, obs>>

SpecTies == InitMistakes /\ [][AddTie \/ Summarise]_vars

(* ======================= properties of the trainers ==================== *)
\* a step that handles the event at the head of the tick's list
Handled == Handling /\ evs' # evs

\* a step in which a trigger pull fires a press
Pulled == pc = "axes" /\ sent' = sent + 1

\* a step that handles a press of a labelled control, and its label
Pressed == (Handled /\ Mapped) \/ Pulled
PressedLabel ==
  IF pc = "axes" THEN TRIGGER_AXES[axis_i].name ELSE ButtonMap[E.button]

\* a step that handles a stop request (keyboard SPACE, controller START)
StopRequested == Handled /\ (IsSpace \/ IsStart)

(* C1: no Attempt/Trial is appended to the ledger by a step taken while    *)
(* the phase is Waiting ('ready' / 'delay'), in any of the three programs. *)
C1_NoAttemptWhileWaiting ==
  [][Len(Ledger') > Len(Ledger) => ~Waiting]_vars

(* C2: a press of the current target handled while the prompt is live      *)
(* appends exactly one ledger entry, marked correct, whose latency is the  *)
(* tick's time minus the time the prompt became live, and that is >= 0.    *)
C2_CorrectPress ==
  [][(PromptLive /\ Pressed /\ PressedLabel = target) =>
       /\ prompt_shown_t # None
       /\ now - prompt_shown_t[1] >= 0
       /\ Ledger' =
            Append(Ledger,
                   IF prog = "rt"
                   THEN [target |-> target,
                         reaction_s |-> now - prompt_shown_t[1]]
                   ELSE [target |-> target, pressed |-> target,
                         reaction_s |-> <<now - prompt_shown_t[1]>>,
                         correct |-> TRUE])]_vars

\* a correct press recorded with a positive latency, by a button in rt and
\* v1 and by a trigger in v2
C2_Witness ==
  \/ prog = "rt" /\ trials # << >> /\ Last(trials).reaction_s > 0
  \/ /\ prog = "v2" /\ attempts # << >>
     /\ Last(attempts).correct /\ Last(attempts).pressed \in TriggerNames
     /\ Last(attempts).reaction_s = <<1>>

(* C3: in reaction-trainer.py every mapped face press handled in READY     *)
(* adds exactly one to false_starts, appends no Trial, keeps the phase     *)
(* READY and the target, and re-samples the deadline from the clock; and   *)
(* false_starts changes in no other step, so n such presses give n.        *)
C3_FalseStart ==
  /\ [][(prog = "rt" /\ Handled /\ Mapped /\ phase = READY) =>
          /\ false_starts' = false_starts + 1
          /\ trials' = trials
          /\ phase' = READY /\ target' = target
          /\ \E d \in DELAY_RANGE_S : \E t \in clock .. clock' :
               delay_until' = t + d]_vars
  /\ [][false_starts' # false_starts =>
          prog = "rt" /\ Handled /\ Mapped /\ phase = READY]_vars
  /\ [](prog = "rt" => false_starts = waiting_presses)

\* two presses during READY: two false starts, no trial
C3_Witness ==
  /\ prog = "rt" /\ waiting_presses = 2 /\ false_starts = 2
  /\ trials = << >> /\ phase = READY

C5_Lenient ==
  /\ [][(prog = "rt" /\ Handled /\ Mapped /\ phase = GO /\ PressedLabel # target) =>
          UNCHANGED <<trials, phase, target, prompt_shown_t>>]_vars
  /\ [][(prog = "rt" /\ phase = GO /\ phase' = GO) =>
          prompt_shown_t' = prompt_shown_t]_vars
  /\ [][(prog = "rt" /\ Handled /\ Mapped /\ phase = GO /\ PressedLabel = target) =>
          /\ trials' = Append(trials, [target |-> target,
                                       reaction_s |-> now - prompt_shown_t[1]])
          /\ Len(trials') = period_len + 1]_vars

\* a wrong press, then the correct one, in one GO period
C5_Witness ==
  /\ prog = "rt" /\ phase = READY /\ wrong_presses = 1
  /\ Len(trials) = period_len + 1

(* C6: strict policy (v1, v2): a wrong press handled while the prompt is    *)
(* live appends exactly one Attempt with correct = FALSE, the             *)
(* pressed label and the latency from the unchanged prompt onset, and the  *)
(* phase stays 'prompt'; the phase goes from 'prompt' to 'delay' only in   *)
(* the step of a correct press, after which the period has given k + 1     *)
(* Attempts, k of them incorrect ones of that target (k wrong presses).    *)
C6_Strict ==
  /\ [][(Strict /\ phase = PROMPT /\ Pressed /\ PressedLabel # target) =>
          /\ attempts' =
               Append(attempts,
                      [target |-> target, pressed |-> PressedLabel,
                       reaction_s |-> <<now - prompt_shown_t[1]>>,
                       correct |-> FALSE])
          /\ UNCHANGED <<phase, target, prompt_shown_t>>]_vars
  /\ [][(Strict /\ phase = PROMPT /\ phase' = DELAY) =>
          /\ Pressed /\ PressedLabel = target
          /\ Last(attempts').correct
          /\ Len(attempts') = period_len + wrong_presses + 1
          /\ \A i \in (period_len + 1) .. Len(attempts) :
               /\ ~attempts[i].correct
               /\ attempts[i].target = target
               /\ attempts[i].pressed # target]_vars

\* target A, wrong press B, then the correct press: two Attempts
C6_Witness ==
  /\ prog = "v1" /\ phase = DELAY /\ Len(attempts) = 2
  /\ attempts[1].target = "A" /\ attempts[1].pressed = "B" /\ ~attempts[1].correct
  /\ attempts[2].target = "A" /\ attempts[2].correct
  /\ wrong_presses = 1 /\ period_len = 0

(* C7 as stated: a stop request (SPACE, or START = button 7) handled in a  *)
(* phase other than Summary sets the phase to Summary in that step and     *)
(* appends nothing to the ledger; one handled in Summary changes nothing   *)
(* of the trial, the ledger and the report.                               *)
C7_Original ==
  [][StopRequested =>
       IF phase # SUMMARY
       THEN phase' = SUMMARY /\ Ledger' = Ledger
       ELSE UNCHANGED <<trial, ledger, report>>]_vars

(* C8: Summary is terminal and read-only: once the phase is Summary no     *)
(* step changes the phase, the ledger or the stored summary; the report is *)
(* computed once per run, in the step that enters Summary, from the ledger *)
(* of that instant.                                                        *)
C8_SummaryTerminal ==
  /\ [][phase = SUMMARY =>
          /\ phase' = SUMMARY
          /\ UNCHANGED <<ledger, summary_lines, summary_calls>>]_vars
  /\ [][(phase # SUMMARY /\ phase' = SUMMARY) =>
          /\ UNCHANGED ledger
          /\ summary_calls' = summary_calls + 1
          /\ summary_lines' = ReportNow]_vars
  /\ [](summary_calls = IF phase = SUMMARY THEN 1 ELSE 0)
  /\ [](phase # SUMMARY => summary_lines = << >>)

\* rt stopped by START, and a second START handled in the summary
C8_Witness ==
  /\ prog = "rt" /\ phase = SUMMARY /\ summary_calls = 1
  /\ last_feedback = <<"Ignored", START_BUTTON_INDEX>>

\* the draws of the block that draw number i belongs to, up to now
Block(j) ==
  ((j * Len(ALL_TARGETS)) + 1) ..
    IF (j + 1) * Len(ALL_TARGETS) <= Len(draws)
    THEN (j + 1) * Len(ALL_TARGETS) ELSE Len(draws)

(* C9: ShuffleBag over k distinct labels: every block of k consecutive     *)
(* next() calls that starts at a refill boundary returns each label        *)
(* exactly once, and the bag is refilled only when it is empty.            *)
C9_ShuffleBag ==
  /\ [](\A j \in 0 .. (Len(draws) \div Len(ALL_TARGETS)) :
          /\ \A a, b \in Block(j) : a # b => draws[a] # draws[b]
          /\ Cardinality(Block(j)) = Len(ALL_TARGETS) =>
               {draws[i] : i \in Block(j)} = Range(ALL_TARGETS))
  /\ [][~(bag' \subseteq bag) => bag = {}]_vars

\* two whole blocks drawn
C9_Witness ==
  pc = "bag" /\ Len(draws) = 2 * Len(ALL_TARGETS) /\ bag = {}

(* C10 as stated: between two press events fired for the same trigger the  *)
(* sampled axis value has been below the release threshold: a trigger     *)
(* does not fire while it is held since its last press.                    *)
C10_Original ==
  [][Pulled => ~held[TRIGGER_AXES[axis_i].name]]_vars

(* C11 as stated: a ShuffleBag is never constructed over an empty list of  *)
(* labels (the construction is rejected), and no call of next() fails.     *)
C11_Original ==
  /\ pc = "made" => items # << >>
  /\ raised # "IndexError"


\* the labels the program is configured to prompt for
TargetSet ==
  IF prog = "rt" THEN TARGET_BUTTONS
  ELSE IF prog = "v2" THEN ALL_TARGETS ELSE V1_TARGETS

\* the rows list every label of btns, each exactly once
ListsAll(rows, btns) ==
  /\ Len(rows) = Len(btns)
  /\ \A i \in DOMAIN btns :
       Cardinality({j \in DOMAIN rows : rows[j].btn = btns[i]}) = 1

\* the target lists reaction-trainer.py is configured with
ButtonLists == {<<"A">>, <<"A", "B">>}

Confused(t, p) ==
  Cardinality({j \in DOMAIN attempts :
                 /\ ~attempts[j].correct
                 /\ attempts[j].target = t /\ attempts[j].pressed = p})

(* C13: the confusion summary of SessionStats.summary_text has at most 8   *)
(* entries, for distinct (target, pressed) pairs; its counts do not        *)
(* increase from one entry to the next; the count of an entry is the       *)
(* number of incorrect attempts of the ledger with that pair; and no pair  *)
(* left out has more incorrect attempts than a listed one.                 *)
C13_Confusion ==
  (Strict /\ phase = SUMMARY) =>
    LET m == summary_lines.mistakes
    IN /\ Len(m) <= 8
       /\ \A i \in DOMAIN m : \A j \in DOMAIN m :
            (i < j) => /\ m[i].n >= m[j].n
                       /\ <<m[i].target, m[i].pressed>> # <<m[j].target, m[j].pressed>>
       /\ \A i \in DOMAIN m :
            m[i].n = Confused(m[i].target, m[i].pressed) /\ m[i].n > 0
       /\ \A j \in DOMAIN attempts :
            (/\ ~attempts[j].correct
             /\ \A i \in DOMAIN m :
                  <<m[i].target, m[i].pressed>>
                    # <<attempts[j].target, attempts[j].pressed>>)
            => /\ Len(m) = 8
               /\ \A i \in DOMAIN m :
                    Confused(attempts[j].target, attempts[j].pressed) <= m[i].n

\* ten attempts with nine different wrong pairs, the pair entered last made
\* twice: it is listed first, and a pair made once is left out
C13_Witness ==
  /\ pc = "mistakes" /\ phase = SUMMARY /\ Len(attempts) = 10
  /\ Len(summary_lines.mistakes) = 8
  /\ summary_lines.mistakes[1] = [target |-> "LB", pressed |-> "A", n |-> 2]
  /\ summary_lines.mistakes[8].n = 1
  /\ Confused("B", "RT") = 1
  /\ \A i \in DOMAIN summary_lines.mistakes :
       summary_lines.mistakes[i].pressed # "RT" \/ summary_lines.mistakes[i].target # "B"

\* acc is the whole percentage of correct out of total
IsPercentage(acc, correct, total) ==
  IF total > 0
  THEN acc * total <= 100 * correct /\ 100 * correct < (acc + 1) * total
  ELSE acc = 0

\* the number of attempts of the ledger marked correct
NumCorrect == Cardinality({i \in DOMAIN attempts : attempts[i].correct})

(* C14: in v1 and v2 the accuracy of the running display and of the        *)
(* summary is the percentage correct / total of the ledger when total > 0  *)
(* and 0 when total = 0; the summary's incorrect is total - correct and    *)
(* 0 <= correct <= total.                                                  *)
C14_Accuracy ==
  Strict =>
    /\ Hud.total = Len(attempts) /\ Hud.correct_n = NumCorrect
    /\ IsPercentage(Hud.acc, NumCorrect, Len(attempts))
    /\ phase = SUMMARY =>
         /\ summary_lines.total = Len(attempts)
         /\ summary_lines.correct = NumCorrect
         /\ IsPercentage(summary_lines.acc, NumCorrect, Len(attempts))
         /\ summary_lines.incorrect = summary_lines.total - summary_lines.correct
         /\ 0 <= summary_lines.correct
         /\ summary_lines.correct <= summary_lines.total

\* two correct attempts out of three: 66 percent; and the empty ledger
C14_Witness ==
  /\ prog = "v1" /\ phase = SUMMARY
  /\ Len(attempts) = 3 /\ NumCorrect = 2
  /\ summary_lines.acc = 66 /\ summary_lines.incorrect = 1

\* the entries of the ledger that are marked correct and have a latency
\* (every Trial of reaction-trainer.py is a correct press), and their latency
CorrectEntries ==
  IF prog = "rt" THEN DOMAIN trials
  ELSE {i \in DOMAIN attempts : attempts[i].correct /\ attempts[i].reaction_s # None}

LatencyOf(i) == IF prog = "rt" THEN trials[i].reaction_s ELSE attempts[i].reaction_s[1]

RECURSIVE TotalLatency(_)
TotalLatency(I) ==
  IF I = {} THEN 0
  ELSE LET i == CHOOSE j \in I : TRUE IN LatencyOf(i) + TotalLatency(I \ {i})

(* C15: in the summary of every program the reaction statistics are those  *)
(* of exactly the latencies of the ledger entries marked correct: the mean *)
(* is their sum over their number, the fastest and the slowest are their   *)
(* least and greatest, at most half of them lie on either side of the      *)
(* median; when there is none the summary has the no-data line instead,    *)
(* and no statistic is evaluated on an empty list, whatever the ledger.    *)
C15_CorrectOnly ==
  phase = SUMMARY =>
    LET I == CorrectEntries
        n == Cardinality(I)
        r == summary_lines.reaction
    IN /\ (I = {}) <=> (r = None)
       /\ \A xs \in summary_lines.evaluated : xs # << >>
       /\ I # {} =>
            /\ r[1].mean = [num |-> TotalLatency(I), den |-> n]
            /\ \E i \in I : LatencyOf(i) = r[1].fastest
            /\ \A i \in I : r[1].fastest <= LatencyOf(i)
            /\ \E i \in I : LatencyOf(i) = r[1].slowest
            /\ \A i \in I : LatencyOf(i) <= r[1].slowest
            /\ r[1].median.den \in {1, 2}
            /\ \E i \in I : \E j \in I :
                 r[1].median.num * 2 = (LatencyOf(i) + LatencyOf(j)) * r[1].median.den
            /\ 2 * Cardinality({i \in I : LatencyOf(i) * r[1].median.den
                                            < r[1].median.num}) <= n
            /\ 2 * Cardinality({i \in I : LatencyOf(i) * r[1].median.den
                                            > r[1].median.num}) <= n

\* a wrong press after 0 and correct presses after 2 and 2: the statistics
\* are those of 2 and 2
C15_Witness ==
  /\ prog = "v1" /\ phase = SUMMARY /\ Len(attempts) = 3
  /\ ~attempts[1].correct /\ attempts[1].reaction_s = Some(0)
  /\ attempts[2].correct /\ attempts[2].reaction_s = Some(2)
  /\ attempts[3].correct /\ attempts[3].reaction_s = Some(2)
  /\ summary_lines.reaction = Some([mean |-> [num |-> 4, den |-> 2],
                                    median |-> [num |-> 4, den |-> 2],
                                    fastest |-> 2, slowest |-> 2])

(* C16 as stated: every run of v2 appends exactly one session block to    *)
(* the results file, whichever way it ends: never more than one, and one   *)
(* when the loop has been left.                                            *)
C16_Original ==
  prog = "v2" =>
    /\ results_file <= 1
    /\ pc = "quit" => results_file = 1

(* C17 as stated: a button-down event whose index has no label and is not *)
(* START produces no press in any phase of any program: the trial, the     *)
(* attempts and the false-start count stay as they are, and the operator   *)
(* is told "ignored, index N" by the feedback message.                     *)
C17_Original ==
  [][(Handled /\ IsButton /\ ~Mapped /\ E.button # START_BUTTON_INDEX) =>
       /\ UNCHANGED <<trial, ledger>>
       /\ last_feedback' = <<"Ignored", E.button>>]_vars

\* a step that starts or restarts a Waiting period
Scheduled ==
  \/ ~Waiting /\ Waiting'
  \/ prog = "rt" /\ Handled /\ Mapped /\ phase = READY
  \/ Strict /\ Pressed /\ PressedLabel = target /\ Len(attempts') > Len(attempts)

\* the instants a step can take as the time of scheduling: a reading of the
\* clock made in the step (reaction-trainer.py), the tick's reading (v1, v2)
Instants == IF prog = "rt" THEN clock .. clock' ELSE {now}

(* C18: the deadline of the first Waiting period, and every deadline set   *)
(* by a step that starts or restarts a Waiting period, is the instant of   *)
(* scheduling plus a delay d with DelayMin <= d <= DelayMax; no other step *)
(* changes the deadline.                                                   *)
C18_Deadline ==
  /\ \E d \in DelayMin .. DelayMax : delay_until = clock + d
  /\ [][Scheduled =>
          \E d \in DelayMin .. DelayMax : \E t \in Instants :
            delay_until' = t + d]_vars
  /\ [][delay_until' # delay_until => Scheduled]_vars

\* v1 after a correct press in a tick later than the first, the next
\* deadline set with the longest delay
C18_Witness ==
  /\ prog = "v1" /\ phase = DELAY /\ Len(attempts) = 1 /\ attempts[1].correct
  /\ now > 1 /\ delay_until = now + DelayMax

(* C19 as stated: no entry of the ledger has the latency none, in any     *)
(* reachable state of any of the three programs.                           *)
C19_Original ==
  /\ \A i \in DOMAIN attempts : attempts[i].reaction_s # None
  /\ \A i \in DOMAIN trials : trials[i].reaction_s \in Int

(* C20: in every reachable state the prompt-onset timestamp (go_shown_t /  *)
(* prompt_shown_t) is none while the phase is Waiting and set while it is  *)
(* PromptLive; it is set only by the step from Waiting to PromptLive and   *)
(* cleared only by a step that schedules a new Waiting period.             *)
C20_Onset ==
  /\ [](Waiting => prompt_shown_t = None)
  /\ [](PromptLive => prompt_shown_t # None)
  /\ [][(prompt_shown_t' # prompt_shown_t /\ prompt_shown_t' # None) =>
          Waiting /\ PromptLive' /\ prompt_shown_t = None]_vars
  /\ [][(prompt_shown_t # None /\ prompt_shown_t' = None) =>
          Scheduled /\ Waiting']_vars

\* the prompt of the second trial is live, with its own timestamp
C20_Witness ==
  /\ PromptLive /\ Len(Ledger) = 1 /\ period_len = 1
  /\ prompt_shown_t # None /\ prompt_shown_t[1] > 1

(* ------- xbox-gamepad-trainer-v2.py, with the axis samples observed ------ *)
\* one trigger axis sampled, the value js.get_axis() returned kept
SampleSeen ==
  \E v \in AxisSamples : Sample(v) /\ sample' = v /\ UNCHANGED <<due, fs_seen>>

InitTrigger == pc = "top" /\ InitCommon /\ InitV2

NextTrigger ==
  \/ \E e \in Events : Deliver(e)
  \/ LoopTop
  \/ EndEvents
  \/ V2_Quit \/ V2_Space \/ V2_Start \/ V2_NoOp \/ V2_Press
  \/ SampleSeen
  \/ ShowPrompt
  \/ EndTick

SpecTrigger == InitTrigger /\ [][NextTrigger]_vars

(* --------- the device queue, each event with the phase it was made in --- *)
\* the event e as the device queues it, with the phase at the instant of
\* the press; no handler reads the field "at"
Made(e) == [type |-> e.type, key |-> e.key, button |-> e.button, at |-> phase]

\* the device queues an event at any instant between two polls
DeliverMade == \E e \in Events : Deliver(Made(e))

NextQueue ==
  \/ DeliverMade
  \/ LoopTop
  \/ EndEvents
  \/ HandleEvent
  \/ SampleAxis
  \/ ShowPrompt
  \/ EndTick

SpecQueue == Init /\ [][NextQueue]_vars

(* ----------- the loop under the scheduling the programs rely on --------- *)
\* a step of the program: the loop never blocks ("while running")
ProgramStep ==
  LoopTop \/ EndEvents \/ HandleEvent \/ SampleAxis \/ ShowPrompt \/ EndTick

\* a tick whose reading of time.perf_counter() is later than the one before,
\* as long as the clock's range allows
LoopTopLater == LoopTop /\ (clock < MaxClock => clock' > clock)

NextLive ==
  \/ \E e \in Events : Deliver(e)
  \/ LoopTopLater
  \/ EndEvents
  \/ HandleEvent
  \/ SampleAxis
  \/ ShowPrompt
  \/ EndTick

\* the loop keeps running and the clock keeps advancing
SpecLive == Init /\ [][NextLive]_vars /\ WF_vars(ProgramStep /\ NextLive)

\* the step that ends a tick: the phase progression at the bottom of the loop
TickEnds == pc = "progress" /\ pc' # "progress"

(* C21 as stated: in all three programs a tick polled with the phase       *)
(* Waiting and the clock at or past the deadline, in which no stop request *)
(* is processed, ends with the phase PromptLive.                           *)
C21_Original ==
  [][(TickEnds /\ due /\ phase # SUMMARY) => PromptLive']_vars

(* C21 amended: a tick polled with the phase Waiting and the clock at or   *)
(* past the deadline, in which no stop request is processed and, in        *)
(* reaction-trainer.py, no false start is handled (a false start sets a    *)
(* new deadline), ends with the phase PromptLive; no press is needed.      *)
C21_TimeTriggered ==
  [][(TickEnds /\ due /\ phase # SUMMARY /\ false_starts = fs_seen) =>
       PromptLive']_vars

\* a due tick of v1 that handled no event and has made the prompt live, and
\* no press has been handled since the start
C21_Witness ==
  /\ prog = "v1" /\ due /\ pc = "top" /\ PromptLive
  /\ prompt_shown_t # None /\ prompt_shown_t[1] >= now
  /\ waiting_presses = 0 /\ sent = 0

\* the environment sends nothing more: no press and no stop request is
\* queued or still to come, short or long
Quiet == sent = MaxEvents /\ queue = << >> /\ evs = << >>

(* C22: liveness: while the loop runs and the clock advances, a Waiting    *)
(* period after which no press and no stop request arrives (its deadline   *)
(* within the clock's range) becomes PromptLive; and PromptLive is left    *)
(* only by the step of a correct press or of a stop request.               *)
C22_Live ==
  /\ (Waiting /\ running /\ Quiet /\ delay_until <= MaxClock) ~> PromptLive
  /\ [][(PromptLive /\ ~PromptLive') =>
          \/ Pressed /\ PressedLabel = target /\ Waiting'
          \/ StopRequested /\ phase' = SUMMARY]_vars

\* reaction-trainer.py: a false start has moved the deadline, nothing came
\* after it, and the prompt is live
C22_Witness ==
  /\ prog = "rt" /\ PromptLive /\ running /\ Quiet
  /\ false_starts = 1 /\ trials = << >>

\* the trigger whose axis the step samples
Sampled == TRIGGER_AXES[axis_i].name

\* the step samples a trigger axis while the prompt is live
SampledLive == pc = "axes" /\ phase = PROMPT

\* the samples between the release and the press threshold, both included
Band == {v \in AxisValues : TRIGGER_RELEASE <= v /\ v <= TRIGGER_THRESHOLD}

(* C23: in a 'prompt' period of xbox-gamepad-trainer-v2.py every trigger   *)
(* is armed on entry; a flag then changes only in the step that samples    *)
(* its axis: armed to disarmed exactly when the sample is above 0.6 while  *)
(* armed, which appends exactly one Attempt of that trigger, and disarmed  *)
(* to armed exactly when the sample is below 0.2; a sample in [0.2, 0.6]   *)
(* changes no flag and appends nothing; and a trigger held since its press *)
(* has no second press in the period.                                      *)
C23_Hysteresis ==
  /\ [][(~PromptLive /\ PromptLive') =>
          \A n \in TriggerNames : trigger_armed'[n]]_vars
  /\ [][(phase = PROMPT /\ trigger_armed' # trigger_armed) =>
          /\ pc = "axes"
          /\ \A n \in TriggerNames \ {Sampled} :
               trigger_armed'[n] = trigger_armed[n]]_vars
  /\ [][SampledLive =>
          /\ (trigger_armed[Sampled] /\ sample' > TRIGGER_THRESHOLD) =>
               /\ ~trigger_armed'[Sampled]
               /\ Len(attempts') = Len(attempts) + 1
               /\ Last(attempts').pressed = Sampled
          /\ (trigger_armed[Sampled] /\ sample' <= TRIGGER_THRESHOLD) =>
               trigger_armed'[Sampled] /\ attempts' = attempts
          /\ (~trigger_armed[Sampled] /\ sample' < TRIGGER_RELEASE) =>
               trigger_armed'[Sampled] /\ attempts' = attempts
          /\ (~trigger_armed[Sampled] /\ sample' >= TRIGGER_RELEASE) =>
               ~trigger_armed'[Sampled] /\ attempts' = attempts
          /\ sample' \in Band =>
               trigger_armed' = trigger_armed /\ attempts' = attempts]_vars
  /\ [][(SampledLive /\ Pulled /\ held[Sampled]) =>
          \A i \in (period_len + 1) .. Len(attempts) :
            attempts[i].pressed # Sampled]_vars
  /\ [](phase = PROMPT =>
          \A n \in TriggerNames :
            (held[n] /\ \E i \in (period_len + 1) .. Len(attempts) :
                         attempts[i].pressed = n) => ~trigger_armed[n])

\* LT fired once in this prompt (target not LT), is still held with the
\* sample on the press threshold, and stays disarmed
C23_Witness ==
  /\ phase = PROMPT /\ pc = "axes" /\ axis_i = 2 /\ sample = TRIGGER_THRESHOLD
  /\ ~trigger_armed["LT"] /\ held["LT"]
  /\ Len(attempts) = period_len + 1 /\ Last(attempts).pressed = "LT"

\* the place in the ledger of the first incorrect attempt of the pair
FirstMade(t, p) ==
  CHOOSE i \in DOMAIN attempts :
    /\ ~attempts[i].correct /\ attempts[i].target = t /\ attempts[i].pressed = p
    /\ \A j \in 1 .. (i - 1) :
         attempts[j].correct \/ attempts[j].target # t \/ attempts[j].pressed # p

\* the confusion summary m lists the pair
Listed(m, t, p) == \E i \in DOMAIN m : m[i].target = t /\ m[i].pressed = p

(* C24: in the confusion summary of summary_text, of two listed pairs with *)
(* equal counts the one first made earlier in the ledger is listed first,  *)
(* and a pair left out whose count equals a listed pair's was first made   *)
(* later than that pair: the list is determined by the ledger.             *)
C24_TieOrder ==
  (Strict /\ phase = SUMMARY) =>
    LET m == summary_lines.mistakes
    IN /\ \A i \in DOMAIN m : \A j \in DOMAIN m :
            (i < j /\ m[i].n = m[j].n) =>
              FirstMade(m[i].target, m[i].pressed)
                < FirstMade(m[j].target, m[j].pressed)
       /\ \A a \in DOMAIN attempts : \A i \in DOMAIN m :
            (/\ ~attempts[a].correct
             /\ ~Listed(m, attempts[a].target, attempts[a].pressed)
             /\ Confused(attempts[a].target, attempts[a].pressed) = m[i].n)
            => FirstMade(m[i].target, m[i].pressed)
                 < FirstMade(attempts[a].target, attempts[a].pressed)
       /\ m = TopMistakes(SortedByCount(Conf(attempts)))

\* nine pairs made once each, from LB -> A back to A -> B: the list starts
\* with LB -> A and the pair made last, A -> B, is the one left out
C24_Witness ==
  /\ pc = "mistakes" /\ phase = SUMMARY /\ Len(attempts) = 9
  /\ Len(summary_lines.mistakes) = MISTAKES_SHOWN
  /\ summary_lines.mistakes[1] = [target |-> "LB", pressed |-> "A", n |-> 1]
  /\ summary_lines.mistakes[8] = [target |-> "A", pressed |-> "LB", n |-> 1]
  /\ Confused("A", "B") = 1
  /\ ~Listed(summary_lines.mistakes, "A", "B")

\* s is t with entries appended, or t itself
Extends(s, t) == Len(s) >= Len(t) /\ SubSeq(s, 1, Len(t)) = t

\* what the step adds to the ledger: entries appended and false starts
Added ==
  (Len(trials') - Len(trials)) + (Len(attempts') - Len(attempts))
    + (false_starts' - false_starts)

(* C25: in all three programs a step changes the ledger only when it       *)
(* processes a press, and then by exactly one entry: one Trial or Attempt  *)
(* appended or one false start counted, never both; the entries already in *)
(* the ledger stay as they are and the false-start count never decreases.  *)
C25_OneEntry ==
  [][/\ Added \in {0, 1}
     /\ Extends(trials', trials) /\ Extends(attempts', attempts)
     /\ false_starts' >= false_starts
     /\ Added = 1 => Pressed]_vars

\* reaction-trainer.py after two presses: one false start, one Trial
C25_Witness ==
  /\ prog = "rt" /\ false_starts = 1 /\ Len(trials) = 1 /\ sent = 2
  /\ queue = << >> /\ evs = << >>

(* C26 as stated: in xbox-gamepad-trainer-v2.py every target drawn from    *)
(* the bag becomes a live prompt before the next one is drawn: a step that *)
(* draws from the bag is taken while the target drawn before is the live   *)
(* prompt.                                                                 *)
C26_Original ==
  [][Len(draws') > Len(draws) => PromptLive]_vars

(* C27 as stated: every button press recorded in the ledger as an Attempt *)
(* or Trial was made while the prompt was live; a press made while the     *)
(* phase was Waiting, also one queued between a tick's poll and its switch *)
(* to PromptLive, is not recorded by the tick that follows.                *)
C27_Original ==
  [][(Handled /\ Mapped /\ Len(Ledger') > Len(Ledger)) =>
       E.at \in {GO, PROMPT}]_vars

====
